---- MODULE Spec2Model ----
(***************************************************************************)
(* Model of src/components/jambonz-ui.js.                                  *)
(*                                                                         *)
(* Spec     : one component instance that calls useMatchMedia, driven by   *)
(*            the rendering framework (mount, effect, re-render, prop      *)
(*            update, unmount) and by the platform's media-query change    *)
(*            events.                                                      *)
(* SpecView : one call of a stateless component (Hero, Latest, Button,     *)
(*            Icon) on props drawn from bounded sets.                      *)
(***************************************************************************)
EXTENDS Integers, Sequences, FiniteSets, TLC

VARIABLES
  matches,        \* platform: current match state of every media query
  mqls,           \* MediaQueryList objects created by window.matchMedia, in creation order
  phase,          \* "init" | "mounted" | "errored" | "unmounted"
  prop,           \* the mediaQuery argument of the latest useMatchMedia call
  mobile,         \* the useState cell: <<>> before useState ran, else <<b>>
  returned,       \* what the latest completed call returned: <<>> or <<b>>
  effectPending,  \* the effect of the latest render has not run yet
  effMql,         \* the mql captured by the pending cleanup closure (0: none)
  lastAct,        \* history: name of the last step
  handled,        \* history: the last step invoked handleMedia
  component,      \* SpecView: the component being called
  props,          \* SpecView: its props
  element         \* SpecView: what it returned

hookVars == <<matches, mqls, phase, prop, mobile, returned, effectPending, effMql, lastAct, handled>>
viewVars == <<component, props, element>>
vars == <<matches, mqls, phase, prop, mobile, returned, effectPending, effMql, lastAct, handled,
          component, props, element>>

(***************************************************************************)
(* Bounds                                                                  *)
(***************************************************************************)
MaxMql == 3          \* window.matchMedia calls in one behaviour
MaxLen == 2          \* length of a subtext array

(***************************************************************************)
(* JavaScript values used as arguments                                     *)
(***************************************************************************)
Undefined == "<undefined>"
Null == "<null>"
EmptyString == ""

MobileQuery == "(max-width: 896px)"
Queries == {MobileQuery, "(min-width: 1200px)"}
QueryArgs == Queries \cup {Undefined, Null, EmptyString}

\* JavaScript truthiness of a string-or-absent argument
Truthy(v) == v \notin {Undefined, Null, EmptyString}

\* function parameter default: `mediaQuery = null`, `mainStyle = 'fill'`, ...
Default(v, d) == IF v = Undefined THEN d ELSE v

(***************************************************************************)
(* useMatchMedia                                                           *)
(***************************************************************************)
handleMediaId == "handleMedia"

\* line 36: the guard `!mediaQuery` after the default `mediaQuery = null`
InvalidQueryMut(q) == Default(q, Null) = Null
InvalidQuery(q) == ~Truthy(Default(q, Null))

\* line 47: window.matchMedia(q) makes a new object without listeners
MatchMedia(ms, q) == Append(ms, [media |-> q, listeners |-> {}])

\* line 49: mql.addEventListener('change', handleMedia)
AddEventListenerMut(ms, i) == ms
AddEventListener(ms, i) == [ms EXCEPT ![i].listeners = @ \cup {handleMediaId}]

\* line 54: mql.removeEventListener('change', handleMedia)
RemoveEventListenerMut(ms, i) == ms
RemoveEventListener(ms, i) == [ms EXCEPT ![i].listeners = @ \ {handleMediaId}]

\* lines 53-55: the cleanup closure, holding the mql of its effect run
CleanupMut(ms, i) == ms
Cleanup(ms, i) == IF i = 0 THEN ms ELSE RemoveEventListener(ms, i)

\* line 43 / line 51: setMobile(v)
SetMobileMut(v) == <<~v>>
SetMobile(v) == <<v>>

\* line 51: the value the effect stores, read from the live mql.matches
EffectValueMut(m, q, old) == old
EffectValue(m, q, old) == SetMobile(m[q])

\* line 56: the dependency list; handleMedia and setMobile are stable
EffectDepsChangedMut(oldQ, newQ) == FALSE
EffectDepsChanged(oldQ, newQ) == oldQ /= newQ

\* the hook's listener is registered on object i
Listening(ms, i) == handleMediaId \in ms[i].listeners
Subscribed == {i \in 1..Len(mqls) : Listening(mqls, i)}

\* line 40: useState(false) on the first call
InitialState(m, q) == <<FALSE>>

hookInit ==
  /\ matches \in [Queries -> BOOLEAN]
  /\ mqls = <<>>
  /\ phase = "init"
  /\ prop = Undefined
  /\ mobile = <<>>
  /\ returned = <<>>
  /\ effectPending = FALSE
  /\ effMql = 0
  /\ lastAct = "none"
  /\ handled = FALSE

viewIdle ==
  /\ component = "none"
  /\ props = [name |-> Undefined]
  /\ element = [type |-> "none"]

Init == hookInit /\ viewIdle

\* lines 35-40, 58: the first call of the hook by the mounting component
Mount(q) ==
  /\ phase = "init"
  /\ prop' = q
  /\ lastAct' = "Mount"
  /\ handled' = FALSE
  /\ IF InvalidQuery(q)
       THEN /\ phase' = "errored"
            /\ UNCHANGED <<mobile, returned, effectPending>>
       ELSE /\ phase' = "mounted"
            /\ mobile' = InitialState(matches, q)
            /\ returned' = InitialState(matches, q)
            /\ effectPending' = TRUE
  /\ UNCHANGED <<matches, mqls, effMql>>
  /\ UNCHANGED viewVars

\* lines 46-56: the effect body, preceded by the cleanup of the previous run
RunEffect ==
  /\ phase = "mounted"
  /\ effectPending
  /\ LET cleaned == Cleanup(mqls, effMql)
         created == MatchMedia(cleaned, prop)
         mql     == Len(created)
     IN /\ mqls' = AddEventListener(created, mql)
        /\ effMql' = mql
  /\ mobile' = EffectValue(matches, prop, mobile)
  /\ effectPending' = FALSE
  /\ lastAct' = "RunEffect"
  /\ handled' = FALSE
  /\ UNCHANGED <<matches, phase, prop, returned>>
  /\ UNCHANGED viewVars

\* lines 35-40, 58: a re-render scheduled by setMobile, same argument
Rerender ==
  /\ phase = "mounted"
  /\ ~effectPending
  /\ mobile /= returned
  /\ returned' = mobile
  /\ lastAct' = "Rerender"
  /\ handled' = FALSE
  /\ UNCHANGED <<matches, mqls, phase, prop, mobile, effectPending, effMql>>
  /\ UNCHANGED viewVars

\* lines 35-40, 56, 58: a render in which the parent passes another query
Update(q) ==
  /\ phase = "mounted"
  /\ ~effectPending
  /\ q /= prop
  /\ Len(mqls) < MaxMql
  /\ prop' = q
  /\ lastAct' = "Update"
  /\ handled' = FALSE
  /\ IF InvalidQuery(q)
       THEN /\ phase' = "errored"
            /\ UNCHANGED <<returned, effectPending>>
       ELSE /\ phase' = "mounted"
            /\ returned' = mobile
            /\ effectPending' = EffectDepsChanged(prop, q)
  /\ UNCHANGED <<matches, mqls, mobile, effMql>>
  /\ UNCHANGED viewVars

\* lines 53-55: teardown of the view runs the cleanup of the last effect run
Unmount ==
  /\ phase \in {"mounted", "errored"}
  /\ ~effectPending
  /\ phase' = "unmounted"
  /\ mqls' = Cleanup(mqls, effMql)
  /\ effMql' = 0
  /\ lastAct' = "Unmount"
  /\ handled' = FALSE
  /\ UNCHANGED <<matches, prop, mobile, returned, effectPending>>
  /\ UNCHANGED viewVars

\* lines 42-44: the platform flips the match state of q and dispatches
\* 'change' to the listeners of every mql object made for q
ChangeEvent(q) ==
  /\ phase /= "init"
  /\ matches' = [matches EXCEPT ![q] = ~matches[q]]
  /\ LET targets == {i \in Subscribed : mqls[i].media = q}
     IN IF targets /= {}
          THEN /\ mobile' = SetMobile(matches'[q])
               /\ handled' = TRUE
          ELSE /\ mobile' = mobile
               /\ handled' = FALSE
  /\ lastAct' = "ChangeEvent"
  /\ UNCHANGED <<mqls, phase, prop, returned, effectPending, effMql>>
  /\ UNCHANGED viewVars

Next ==
  \/ \E q \in QueryArgs : Mount(q)
  \/ RunEffect
  \/ Rerender
  \/ \E q \in QueryArgs : Update(q)
  \/ Unmount
  \/ \E q \in Queries : ChangeEvent(q)

Spec == Init /\ [][Next]_vars

TypeOK ==
  /\ matches \in [Queries -> BOOLEAN]
  /\ Len(mqls) <= MaxMql
  /\ phase \in {"init", "mounted", "errored", "unmounted"}
  /\ prop \in QueryArgs
  /\ mobile \in {<<>>, <<TRUE>>, <<FALSE>>}
  /\ returned \in {<<>>, <<TRUE>>, <<FALSE>>}
  /\ effMql \in 0..Len(mqls)

(***************************************************************************)
(* Stateless components                                                    *)
(***************************************************************************)
\* JavaScript values a content file can hold in `subtext`
Str(s) == [kind |-> "string", val |-> s, items |-> <<>>]
Undef == [kind |-> "undefined", val |-> "", items |-> <<>>]
Arr(xs) == [kind |-> "array", val |-> "", items |-> xs]

Scalars == {Str("one"), Str("<a href='/x'>two</a>"), Undef}
SeqsUpTo(S, n) == UNION {[1..k -> S] : k \in 0..n}
Arrays == {Arr(xs) : xs \in SeqsUpTo(Scalars, MaxLen)}
SubtextValues == Scalars \cup Arrays

\* line 10: Array.isArray
IsArray(v) == v.kind = "array"

\* lines 9-15
normalizeSubtextMut(subtext) == subtext
normalizeSubtext(subtext) == IF ~IsArray(subtext) THEN Arr(<<subtext>>) ELSE subtext

\* lines 124, 152: nanoid() is called once per item and never repeats
nanoid(i) == i

\* Array.prototype.map over the normalized subtext, lines 123-125 and 151-153
MapItems(arr, slot) ==
  [i \in 1..Len(arr.items) |-> [type |-> "div", key |-> nanoid(i), slot |-> slot, content |-> arr.items[i]]]

\* template literal interpolation of a style token
Interpolate(v) == IF v = Null THEN "null" ELSE IF v = Undefined THEN "undefined" ELSE v

Range(f) == {f[i] : i \in DOMAIN f}

\* assignment of `true` under a key of the classes object: keys are unique
\* and keep their insertion order
SetKey(classes, key) == IF key \in Range(classes) THEN classes ELSE Append(classes, key)

\* classNames(classes): the keys, all of them true, joined by one space
RECURSIVE classNames(_)
classNames(classes) ==
  IF classes = <<>> THEN ""
  ELSE IF Len(classes) = 1 THEN classes[1]
  ELSE classes[1] \o " " \o classNames(Tail(classes))

\* lines 168-175
ButtonClassesMut(mainStyle, subStyle) ==
  LET classes == <<"btn", "btn--" \o Interpolate(mainStyle)>>
  IN IF subStyle /= Null
       THEN SetKey(classes, "btn--" \o Interpolate(mainStyle) \o "--" \o Interpolate(subStyle))
       ELSE classes
ButtonClasses(mainStyle, subStyle) ==
  LET classes == <<"btn", "btn--" \o Interpolate(mainStyle)>>
  IN IF Truthy(subStyle)
       THEN SetKey(classes, "btn--" \o Interpolate(mainStyle) \o "--" \o Interpolate(subStyle))
       ELSE classes

\* lines 167-182
Button(p) ==
  LET mainStyle == Default(p.mainStyle, "fill")
      subStyle  == Default(p.subStyle, Null)
  IN [type |-> "Link", href |-> p.href,
      child |-> [type |-> "a", target |-> p.target,
                 classes |-> ButtonClasses(mainStyle, subStyle),
                 className |-> classNames(ButtonClasses(mainStyle, subStyle)),
                 children |-> p.children]]

\* lines 189-196
IconClasses(mainStyle, subStyle) ==
  LET classes == <<"icon", "icon--" \o Interpolate(mainStyle)>>
  IN IF Truthy(subStyle)
       THEN SetKey(classes, "icon--" \o Interpolate(mainStyle) \o "--" \o Interpolate(subStyle))
       ELSE classes

\* line 2: the names the icon library exports
RegisteredIcons == {"Activity", "Menu", "X"}
IconNameArgs == RegisteredIcons \cup {"NoSuchIcon", Undefined}

\* line 188: Icons[name], undefined for a name the library does not export
Lookup(name) == IF name \in RegisteredIcons THEN <<name>> ELSE <<>>

NullElement == [type |-> "null"]

\* lines 187-213
IconMut(p) ==
  LET Component == Lookup(p.name)
      mainStyle == Default(p.mainStyle, "inline")
      subStyle  == Default(p.subStyle, Null)
  IN IF mainStyle /= "inline"
       THEN [type |-> "div", classes |-> IconClasses(mainStyle, subStyle),
             className |-> classNames(IconClasses(mainStyle, subStyle)),
             children |-> [i \in 1..Len(Component) |-> [type |-> Component[i]]]]
       ELSE IF Component = <<>> THEN NullElement
       ELSE [type |-> Component[1]]
Icon(p) ==
  LET Component == Lookup(p.name)
      mainStyle == Default(p.mainStyle, "inline")
      subStyle  == Default(p.subStyle, Null)
  IN IF Component = <<>> THEN NullElement
     ELSE IF mainStyle /= "inline"
       THEN [type |-> "div", classes |-> IconClasses(mainStyle, subStyle),
             className |-> classNames(IconClasses(mainStyle, subStyle)),
             children |-> <<[type |-> Component[1]]>>]
       ELSE [type |-> Component[1]]

\* lines 106-131
Latest(p) ==
  LET classes == SetKey(SetKey(SetKey(<<"latest">>, "latest--" \o Interpolate(p.data.label)), "pad"), "bg-pink")
  IN [type |-> "section", className |-> classNames(classes),
      headline |-> p.data.headline,
      subtext |-> MapItems(normalizeSubtext(p.data.subtext), "__html")]

\* lines 133-164
Hero(p) ==
  LET base    == <<"hero", "pad">>
      classes == IF Truthy(p.subStyle) THEN SetKey(base, "hero--" \o Interpolate(p.subStyle)) ELSE base
  IN [type |-> "section", className |-> classNames(classes),
      headline |-> p.data.headline,
      subtext |-> MapItems(normalizeSubtext(p.data.subtext), "children"),
      cta |-> IF Truthy(p.data.cta)
                THEN <<Button([href |-> p.data.url, target |-> "_blank", children |-> p.data.cta,
                               mainStyle |-> Undefined, subStyle |-> Undefined])>>
                ELSE <<>>]

MainStyleArgs == {Undefined, "fill", "pill", "inline"}
SubStyleArgs == {Undefined, Null, EmptyString, "dark", "purple"}

HeroProps ==
  [data : [headline : {"Headline"}, subtext : SubtextValues, cta : {Undefined, "Sign up"}, url : {"/start"}],
   subStyle : {Undefined, "pink"}]
LatestProps ==
  [data : [headline : {"Headline"}, subtext : SubtextValues, label : {"launch", "news"}]]
ButtonProps ==
  [href : {"/start"}, target : {Undefined}, children : {"Sign up"},
   mainStyle : MainStyleArgs, subStyle : SubStyleArgs]
IconProps ==
  [name : IconNameArgs, mainStyle : MainStyleArgs, subStyle : SubStyleArgs]

NotRendered == [type |-> "none"]

hookIdle ==
  /\ hookInit
  /\ matches = [q \in Queries |-> FALSE]

InitView ==
  /\ hookIdle
  /\ element = NotRendered
  /\ \/ component = "Hero" /\ props \in HeroProps
     \/ component = "Latest" /\ props \in LatestProps
     \/ component = "Button" /\ props \in ButtonProps
     \/ component = "Icon" /\ props \in IconProps

RenderHero ==
  /\ component = "Hero" /\ element = NotRendered
  /\ element' = Hero(props)
  /\ UNCHANGED <<component, props>>
  /\ UNCHANGED hookVars

RenderLatest ==
  /\ component = "Latest" /\ element = NotRendered
  /\ element' = Latest(props)
  /\ UNCHANGED <<component, props>>
  /\ UNCHANGED hookVars

RenderButton ==
  /\ component = "Button" /\ element = NotRendered
  /\ element' = Button(props)
  /\ UNCHANGED <<component, props>>
  /\ UNCHANGED hookVars

RenderIcon ==
  /\ component = "Icon" /\ element = NotRendered
  /\ element' = Icon(props)
  /\ UNCHANGED <<component, props>>
  /\ UNCHANGED hookVars

NextView == RenderHero \/ RenderLatest \/ RenderButton \/ RenderIcon

SpecView == InitView /\ [][NextView]_vars

(***************************************************************************)
(* Properties of the stateless components                                  *)
(***************************************************************************)
Rendered == element /= NotRendered

\* C7: normalizeSubtext wraps a non-array in a one-element array holding
\* exactly it and returns an array unchanged, so it is idempotent; Hero and
\* Latest render one item per element of the array, or the single scalar.
C7_SubtextNormalized ==
  (component \in {"Hero", "Latest"} /\ Rendered) =>
    LET v == props.data.subtext
        n == normalizeSubtext(v)
    IN /\ IsArray(n)
       /\ ~IsArray(v) => (Len(n.items) = 1 /\ n.items[1] = v)
       /\ IsArray(v) => n = v
       /\ normalizeSubtext(n) = n
       /\ Len(element.subtext) = (IF IsArray(v) THEN Len(v.items) ELSE 1)
       /\ \A i \in 1..Len(element.subtext) :
            element.subtext[i].content = (IF IsArray(v) THEN v.items[i] ELSE v)

C7_Witness ==
  /\ component = "Latest" /\ Rendered
  /\ props.data.subtext = Str("one")
  /\ Len(element.subtext) = 1 /\ element.subtext[1].content = Str("one")

\* the class set the claim expects for base b, main style m, sub style s
ExpectedClassSet(b, m, s) ==
  IF s \in {Undefined, Null, EmptyString}
    THEN {b, b \o "--" \o m}
    ELSE {b, b \o "--" \o m, b \o "--" \o m \o "--" \o s}

\* C8: Button and Icon compose exactly {b, b--m}, plus b--m--s when a sub
\* style is present, with m defaulting to fill (Button) and inline (Icon).
C8_VariantClassSet ==
  /\ (component = "Button" /\ Rendered) =>
       LET m == IF props.mainStyle = Undefined THEN "fill" ELSE props.mainStyle
       IN /\ Range(element.child.classes) = ExpectedClassSet("btn", m, props.subStyle)
          /\ Len(element.child.classes) = Cardinality(ExpectedClassSet("btn", m, props.subStyle))
  /\ (component = "Icon" /\ Rendered) =>
       LET m == IF props.mainStyle = Undefined THEN "inline" ELSE props.mainStyle
           classes == IconClasses(Default(props.mainStyle, "inline"), Default(props.subStyle, Null))
       IN /\ Range(classes) = ExpectedClassSet("icon", m, props.subStyle)
          /\ Len(classes) = Cardinality(ExpectedClassSet("icon", m, props.subStyle))
          /\ element.type = "div" => element.classes = classes

C8_Witness ==
  /\ component = "Button" /\ Rendered
  /\ props.mainStyle = Undefined /\ props.subStyle = "dark"
  /\ element.child.className = "btn btn--fill btn--fill--dark"

\* C9: Icon returns null for a name the registry lacks, whatever the styles,
\* and returns the registered component, bare or wrapped, otherwise.
C9_UnknownIconRendersNothing ==
  (component = "Icon" /\ Rendered) =>
    IF props.name \in RegisteredIcons
      THEN \/ element = [type |-> props.name]
           \/ element.type = "div" /\ element.children = <<[type |-> props.name]>>
      ELSE element = NullElement

C9_Witness ==
  /\ component = "Icon" /\ Rendered
  /\ props.name = "NoSuchIcon" /\ props.mainStyle = "fill" /\ props.subStyle = "dark"
  /\ element = NullElement

(***************************************************************************)
(* Properties of useMatchMedia                                             *)
(***************************************************************************)
\* nothing is scheduled: the effect has run and the last render saw the state
Settled == phase = "mounted" /\ ~effectPending /\ mobile = returned

\* C1 (as stated): after mount with a query that currently matches, the very
\* first read of the hook returns true.
C1_FirstReadIsMatch ==
  (lastAct = "Mount" /\ phase = "mounted" /\ matches[prop]) => returned = <<TRUE>>

\* C1 (amended): the first read returns the initial state false whatever the
\* platform says; the mount effect itself then stores the current match state
\* of the query, without waiting for a change event, and the re-render it
\* schedules returns that state.
C1_EffectInitialisesValue ==
  /\ (phase = "mounted" /\ Len(mqls) = 0) => returned = <<FALSE>>
  /\ (lastAct = "RunEffect" /\ Len(mqls) = 1) => mobile = <<matches[prop]>>
  /\ (lastAct = "Rerender" /\ Len(mqls) = 1) => returned = <<matches[prop]>>

C1_Witness ==
  /\ lastAct = "RunEffect" /\ Len(mqls) = 1
  /\ matches[prop] /\ returned = <<FALSE>> /\ mobile = <<TRUE>>

\* C2: every listener registration is paired with its deregistration from the
\* same object: at most one object carries the hook's listener, it is the one
\* the cleanup closure holds, it was made for the query of the last effect
\* run, and none carries it after unmount.
C2_ListenerPaired ==
  /\ Cardinality(Subscribed) <= 1
  /\ Subscribed \subseteq {effMql}
  /\ phase = "unmounted" => Subscribed = {}
  /\ (phase = "mounted" /\ ~effectPending) => \A i \in Subscribed : mqls[i].media = prop

C2_Witness ==
  /\ phase = "unmounted" /\ Len(mqls) >= 2 /\ Subscribed = {}
  /\ mqls[1].media /= mqls[2].media

\* C3: after teardown no change event invokes the handler, and the value
\* stays what it was at teardown.
C3_NoUpdateAfterTeardown ==
  [][phase = "unmounted" => (~handled' /\ mobile' = mobile /\ returned' = returned)]_vars

C3_Witness ==
  /\ phase = "unmounted" /\ lastAct = "ChangeEvent" /\ Len(mqls) >= 1
  /\ prop \in Queries /\ mobile /= <<matches[prop]>>

\* C4: a call with no query, null or the empty string throws before anything
\* else happens: no media-query object is made, no listener is registered and
\* no state is initialised or changed by that call.
C4_ThrowsBeforeSubscription ==
  [][(lastAct' \in {"Mount", "Update"} /\ prop' \in {Undefined, Null, EmptyString})
       => /\ phase' = "errored"
          /\ mqls' = mqls
          /\ mobile' = mobile
          /\ returned' = returned
          /\ effectPending' = effectPending]_vars

C4_Witness ==
  /\ phase = "errored" /\ prop = EmptyString
  /\ mobile = <<>> /\ mqls = <<>> /\ ~effectPending

\* C5: while the hook is subscribed for q, every change of q's match state
\* invokes the handler and leaves the value equal to the event's result.
C5_EventUpdatesValue ==
  [][\A q \in Queries :
       (phase = "mounted" /\ ~effectPending /\ prop = q /\ matches'[q] /= matches[q])
         => (handled' /\ mobile' = <<matches'[q]>>)]_vars

C5_Witness ==
  /\ phase = "mounted" /\ lastAct = "ChangeEvent" /\ handled
  /\ mobile = <<FALSE>> /\ returned = <<TRUE>> /\ ~matches[prop]

ObserverState ==
  IF Subscribed = {} THEN "unsubscribed"
  ELSE IF mobile = <<TRUE>> THEN "subscribed-matching"
  ELSE "subscribed-not-matching"

ValueFollowsPlatform ==
  \A i \in Subscribed : mobile = <<matches[mqls[i].media]>>

\* C6 (as stated): the value of a subscribed observer equals the platform's
\* match state of the subscribed query, and the observer changes state only
\* through a change event, the mount or the unmount.
C6_OnlyEventsAndMount ==
  /\ []ValueFollowsPlatform
  /\ [][ObserverState' /= ObserverState
          => \/ lastAct' \in {"ChangeEvent", "Unmount"}
             \/ lastAct' = "RunEffect" /\ effMql = 0]_vars

\* C6 (amended): as stated, with one more cause of a transition: the
\* re-subscription that follows a change of the query string.
C6_EventsMountAndResubscribe ==
  /\ []ValueFollowsPlatform
  /\ [][ObserverState' /= ObserverState
          => lastAct' \in {"ChangeEvent", "Unmount", "RunEffect"}]_vars

C6_Witness ==
  /\ lastAct = "RunEffect" /\ Len(mqls) >= 2
  /\ ObserverState = "subscribed-not-matching"
  /\ matches[mqls[1].media] /\ ~matches[prop]

\* C10: after the query string changed from q1 to q2 and the re-subscription
\* settled, the value is q2's current match state; from then on events of
\* q2 alter the value and events of another query do not.
C10_FollowsNewQuery ==
  [][/\ Settled' => returned' = <<matches'[prop']>>
     /\ \A q \in Queries :
          (phase = "mounted" /\ ~effectPending /\ matches'[q] /= matches[q])
            => IF q = prop THEN mobile' = <<matches'[q]>>
                           ELSE mobile' = mobile /\ ~handled']_vars

C10_Witness ==
  /\ Settled /\ Len(mqls) >= 2 /\ mqls[1].media /= prop
  /\ matches[mqls[1].media] /= matches[prop]
  /\ lastAct = "Rerender"
====
